---- MODULE Spec2Model ----
(***************************************************************************)
(* A model of check.py: the font provisioner (FontManager), the page       *)
(* assembler (create_font_preview, create_font_comparison), the card       *)
(* compositor (draw_card), the background pattern generator                *)
(* (create_penrose_pattern) and the batch driver (generate_all_previews).  *)
(*                                                                         *)
(* Python strings are sequences of one-character strings, so that lower(), *)
(* find(), slicing and endswith() are computed rather than assumed.  A     *)
(* canvas is the sequence of drawing operations applied to it.             *)
(***************************************************************************)
EXTENDS Integers, Sequences, FiniteSets, TLC

VARIABLES
  fontsDir,    \* the font cache directory: font file name -> "absent" | "valid" | "invalid"
  outDir,      \* the preview output directory: [exists, files: file name -> content]
  pc,          \* position of the caller / of generate_all_previews
  pairIdx,     \* generate_all_previews: index of the next font pair of its loop
  fontIdx,     \* ensure_all_fonts: index of the next registered font of its loop
  missing_fonts, \* ensure_all_fonts: its list of fonts that could not be downloaded
  op,          \* the current or last top-level call
  requests,    \* the network requests sent during that call, in order
  log,         \* the messages printed during that call, in order
  ret,         \* the value that call returned
  preFonts,    \* fontsDir when that call started
  preOut,      \* outDir when that call started
  canvas,      \* the canvas the last page or collage call built
  failedPairs, \* the font pairs whose create_font_preview call has failed so far
  probe        \* input and result of the pure function under study

vars == <<fontsDir, outDir, pc, pairIdx, fontIdx, missing_fonts, op, requests,
          log, ret, preFonts, preOut, canvas, failedPairs, probe>>

-----------------------------------------------------------------------------
(* Strings *)

Min(a, b) == IF a <= b THEN a ELSE b
Max(a, b) == IF a >= b THEN a ELSE b

\* str.lower(), on the letters the program's names use
LowerChar(c) ==
  CASE c = "S" -> "s" [] c = "G" -> "g" [] c = "I" -> "i" [] c = "O" -> "o"
    [] c = "D" -> "d" [] c = "M" -> "m" [] c = "P" -> "p" [] c = "N" -> "n"
    [] OTHER -> c

Lower(s) == [i \in 1..Len(s) |-> LowerChar(s[i])]

\* str.endswith(suffix)
EndsWith(s, suffix) ==
  /\ Len(s) >= Len(suffix)
  /\ SubSeq(s, Len(s) - Len(suffix) + 1, Len(s)) = suffix

\* str.find(sub, start): the lowest 0-based index >= start where sub occurs, or -1
Find(s, sub, start) ==
  LET hits == {i \in start..(Len(s) - Len(sub)) :
                  SubSeq(s, i + 1, i + Len(sub)) = sub}
  IN IF hits = {} THEN -1 ELSE CHOOSE i \in hits : \A j \in hits : i <= j

\* s[a:b] for a >= 0 and any b (a negative b counts from the end)
Slice(s, a, b) ==
  LET e  == IF b < 0 THEN Max(Len(s) + b, 0) ELSE Min(b, Len(s))
      a0 == Min(a, Len(s))
  IN IF e <= a0 THEN << >> ELSE SubSeq(s, a0 + 1, e)

QuoteChars == {"'", "\""}

RECURSIVE StripLeft(_)
StripLeft(s) ==
  IF s # << >> /\ Head(s) \in QuoteChars THEN StripLeft(Tail(s)) ELSE s

RECURSIVE StripRight(_)
StripRight(s) ==
  IF s # << >> /\ s[Len(s)] \in QuoteChars
  THEN StripRight(SubSeq(s, 1, Len(s) - 1)) ELSE s

\* str.strip("'\"")
StripQuotes(s) == StripRight(StripLeft(s))

DotTtf == <<".", "t", "t", "f">>
DotPng == <<".", "p", "n", "g">>

-----------------------------------------------------------------------------
(* The font registry: FontManager.__init__ *)

SpaceGrotesk == <<"S","p","a","c","e","G","r","o","t","e","s","k">>
Inter        == <<"I","n","t","e","r">>
Outfit       == <<"O","u","t","f","i","t">>
DMSans       == <<"D","M","S","a","n","s">>
PublicSans   == <<"P","u","b","l","i","c","S","a","n","s">>

\* fonts_data.keys(), in insertion order
FontOrder == <<SpaceGrotesk, Inter, Outfit, DMSans, PublicSans>>

FontNames == {FontOrder[i] : i \in 1..Len(FontOrder)}

fonts_data ==
  [f \in FontNames |->
     CASE f = SpaceGrotesk ->
            [css_url  |-> "https://fonts.googleapis.com/css2?family=Space+Grotesk:wght@500&display=swap",
             filename |-> <<"s","p","a","c","e","g","r","o","t","e","s","k">> \o DotTtf]
       [] f = Inter ->
            [css_url  |-> "https://fonts.googleapis.com/css2?family=Inter&display=swap",
             filename |-> <<"i","n","t","e","r">> \o DotTtf]
       [] f = Outfit ->
            [css_url  |-> "https://fonts.googleapis.com/css2?family=Outfit&display=swap",
             filename |-> <<"o","u","t","f","i","t">> \o DotTtf]
       [] f = DMSans ->
            [css_url  |-> "https://fonts.googleapis.com/css2?family=DM+Sans&display=swap",
             filename |-> <<"d","m","s","a","n","s">> \o DotTtf]
       [] OTHER ->
            [css_url  |-> "https://fonts.googleapis.com/css2?family=Public+Sans&display=swap",
             filename |-> <<"p","u","b","l","i","c","s","a","n","s">> \o DotTtf]]

FontFiles == {fonts_data[f].filename : f \in FontNames}

\* a variant that takes only a loadable font file for an existing one
FontFileExists_OnlyValid(dir, name) == name \in DOMAIN dir /\ dir[name] = "valid"

\* os.path.exists(os.path.join(fonts_dir, name))
FontFileExists(dir, name) == name \in DOMAIN dir /\ dir[name] # "absent"

\* ImageFont.truetype(path, ...) succeeds
FontFileLoads(dir, name) == name \in DOMAIN dir /\ dir[name] = "valid"

-----------------------------------------------------------------------------
(* The remote font service, as the font provisioner sees it *)

\* The resource a well-formed stylesheet embeds
TtfUrl == <<"h", ":", "f">>

\* Stylesheet texts the service may answer with
CssGood    == <<"s","r","c",":","u","r","l","(">> \o TtfUrl \o <<")",";">>
CssQuoted  == <<"u","r","l","(","'">> \o TtfUrl \o <<"'",")">>
CssNoUrl   == <<"/","*","x","*","/">>
CssStray   == <<"/","*","-">> \o TtfUrl \o <<")","*","/">>

CssTexts == {CssGood, CssQuoted, CssNoUrl, CssStray}

\* What the service does with one font's download: the stylesheet request
\* fails (css.ok = FALSE) or answers css.text; the resource request fails
\* (ttf = "error") or answers bytes that are a valid or an invalid font.
NetBehaviours ==
  { [css |-> [ok |-> FALSE, text |-> << >>], ttf |-> "error"] }
  \cup { [css |-> [ok |-> TRUE, text |-> t], ttf |-> r] :
            t \in CssTexts, r \in {"error", "valid", "invalid"} }

\* requests.get(url) sends a request only to a URL with a scheme and a host
\* (it raises MissingSchema or InvalidURL otherwise)
IsUrl(u) == Len(u) >= 3 /\ SubSeq(u, 1, 2) = <<"h", ":">>

None == << >>

-----------------------------------------------------------------------------
(* FontManager *)

UrlOpen == <<"u","r","l","(">>

\* get_ttf_url, after the stylesheet was fetched: the substring search
get_ttf_url(css_content) ==
  LET url_start == Find(css_content, UrlOpen, 0) + 4
      url_end   == Find(css_content, <<")">>, url_start)
  IN StripQuotes(Slice(css_content, url_start, url_end))

\* a variant whose failed download still returns the font path
download_font_ReturnsPath(dir, font_name, net) ==
  [dir |-> dir,
   requests |-> << [kind |-> "css", css_url |-> fonts_data[font_name].css_url] >>,
   log |-> << [msg |-> "Downloading", font |-> font_name],
              [msg |-> "Error downloading", font |-> font_name] >>,
   ret |-> fonts_data[font_name].filename, raised |-> TRUE, escaped |-> FALSE]

\* download_font(font_name) against the cache `dir`, the service behaving as
\* `net`: the cache afterwards, the requests sent, the messages printed, the
\* value returned (the path, or None), whether the try block raised, and
\* whether an exception escaped the function (the except clause catches all).
download_font(dir, font_name, net) ==
  LET font_data == fonts_data[font_name]
      font_path == font_data.filename
      cssReq    == [kind |-> "css", css_url |-> font_data.css_url]
      failed(reqs) ==
        [dir |-> dir, requests |-> reqs,
         log |-> << [msg |-> "Downloading", font |-> font_name],
                    [msg |-> "Error downloading", font |-> font_name] >>,
         ret |-> None, raised |-> TRUE, escaped |-> FALSE]
  IN IF FontFileExists(dir, font_path)
     THEN [dir |-> dir, requests |-> << >>,
           log |-> << [msg |-> "already exists", font |-> font_name] >>,
           ret |-> font_path, raised |-> FALSE, escaped |-> FALSE]
     ELSE IF ~net.css.ok
     THEN failed(<<cssReq>>)
     ELSE LET ttf_url == get_ttf_url(net.css.text)
              ttfReq  == [kind |-> "ttf", ttf_url |-> ttf_url]
          IN IF ~IsUrl(ttf_url)
             THEN failed(<<cssReq>>)
             ELSE IF net.ttf = "error"
             THEN failed(<<cssReq, ttfReq>>)
             ELSE [dir |-> [dir EXCEPT ![font_path] = net.ttf],
                   requests |-> <<cssReq, ttfReq>>,
                   log |-> << [msg |-> "Downloading", font |-> font_name],
                              [msg |-> "Successfully downloaded", font |-> font_name] >>,
                   ret |-> font_path, raised |-> FALSE, escaped |-> FALSE]

-----------------------------------------------------------------------------
(* Colours and fonts of the pages *)

White          == <<255, 255, 255>>
background_color == <<252, 252, 252>>
headline_color == <<10, 47, 47>>
body_color     == <<71, 85, 105>>
accent_color   == <<20, 184, 166>>
muted_color    == <<100, 116, 139>>
card_color     == <<255, 255, 255>>
card_border    == <<226, 232, 240>>

\* ImageFont.truetype(path, size)
FontOf(file, size) == [file |-> file, size |-> size]

\* the fonts dictionary of a page (create_font_preview adds the two bold keys,
\* which fall back to or coincide with the regular weight's file)
PageFonts(headline_font_path, body_font_path) ==
  [h1 |-> FontOf(headline_font_path, 72), h2 |-> FontOf(headline_font_path, 44),
   h3 |-> FontOf(headline_font_path, 36), h4 |-> FontOf(headline_font_path, 28),
   h5 |-> FontOf(headline_font_path, 24),
   body_xlarge |-> FontOf(body_font_path, 22), body_large |-> FontOf(body_font_path, 18),
   body_regular |-> FontOf(body_font_path, 16), body_small |-> FontOf(body_font_path, 14),
   caption |-> FontOf(body_font_path, 12),
   body_regular_bold |-> FontOf(body_font_path, 16),
   body_small_bold |-> FontOf(body_font_path, 14)]

\* the four content cards; each body paragraph is given as the lines that
\* split('\n') yields, none of which has surrounding whitespace to strip
\* (the bullet of the captions is written as a hyphen)
content_pairs ==
  << [title |-> "Digital Innovation", subtitle |-> "Transforming the Future",
      eyebrow |-> "TECHNOLOGY",
      body_large |-> <<"Artificial intelligence and machine learning are",
                       "revolutionizing how we interact with technology.">>,
      body_regular |-> <<"These groundbreaking advances are creating unprecedented",
                         "opportunities for innovation and growth across industries.">>,
      button_text |-> "Explore AI Solutions",
      caption |-> "Sergey Bulaev AI - AI use cases for everyone"],
     [title |-> "User Experience", subtitle |-> "Designing for Humans",
      eyebrow |-> "DESIGN",
      body_large |-> <<"Great design puts human needs first. Understanding",
                       "user behavior and psychology.">>,
      body_regular |-> <<"We create intuitive interfaces that delight users while",
                         "solving complex problems effectively.">>,
      button_text |-> "Learn More",
      caption |-> "Updated weekly - Latest trends in UX"],
     [title |-> "Data Privacy", subtitle |-> "Protecting Digital Rights",
      eyebrow |-> "SECURITY",
      body_large |-> <<"In our interconnected world, protecting personal",
                       "data has become crucial.">>,
      body_regular |-> <<"Organizations must implement robust security measures",
                         "while maintaining transparency.">>,
      button_text |-> "View Guidelines",
      caption |-> "Essential reading - Security guidelines"],
     [title |-> "Sustainability", subtitle |-> "Building Tomorrow",
      eyebrow |-> "ENVIRONMENT",
      body_large |-> <<"Environmental consciousness is reshaping how we",
                       "approach development.">>,
      body_regular |-> <<"From renewable energy to sustainable materials, every",
                         "choice impacts our future.">>,
      button_text |-> "Join Initiative",
      caption |-> "Ongoing initiative - Join the movement"] >>

-----------------------------------------------------------------------------
(* Drawing operations.  A canvas is [mode, size, ops]; ops is the sequence  *)
(* of operations applied to it, each a record naming what was drawn where.  *)

NewImage(mode, w, h) == [mode |-> mode, size |-> <<w, h>>, ops |-> << >>]

Drawn(image, newOps) == [image EXCEPT !.ops = @ \o newOps]

RoundedRectangle(part, box, radius, fill) ==
  [op |-> "rounded_rectangle", part |-> part, box |-> box, radius |-> radius,
   fill |-> fill]

Text(part, at, text, font, fill) ==
  [op |-> "text", part |-> part, at |-> at, text |-> text, font |-> font,
   fill |-> fill]

\* the lines of one body paragraph, drawn from y_offset down
BodyLines(part, lines, content_x, y_offset, line_height, font, fill) ==
  [k \in 1..Len(lines) |->
     Text(part, <<content_x, y_offset + (k - 1) * line_height>>, lines[k], font, fill)]

\* draw_card: the width of the button
button_padding == 20
button_height  == 44

\* a variant without the clamp to the card's content width
ButtonWidth_Unclamped(text_width, width, padding) ==
  text_width + (button_padding * 2)

ButtonWidth(text_width, width, padding) ==
  LET button_width     == text_width + (button_padding * 2)
      max_button_width == width - (2 * padding)
  IN Min(button_width, max_button_width)

\* draw_button_with_shadow: a new image holding the shadow, the button and its
\* label (text_width, text_height: the label's measured bounding box)
draw_button_with_shadow(width, height, bg_color, text, font, text_color, text_width, text_height) ==
  LET text_x == (width - text_width) \div 2
      text_y == ((height - text_height) \div 2) - 1
      shadow_offset == 1
  IN Drawn(NewImage("RGBA", width + 4, height + 4),
       << RoundedRectangle("button_shadow", <<2, 2, width + 2, height + 2>>, 8,
                           <<0, 0, 0, 50>>),
          RoundedRectangle("button", <<0, 0, width, height>>, 8, bg_color),
          Text("button_text_shadow", <<text_x + shadow_offset, text_y + shadow_offset>>,
               text, font, <<0, 0, 0, 60>>),
          Text("button_text", <<text_x, text_y>>, text, font, text_color) >>)

\* draw_card: the button image it builds and the place it computes for it
CardButton(content, x, y, width, height, bg_color, accent, fonts, padding, button_margin_bottom, text_width, text_height) ==
  LET button_width == ButtonWidth(text_width, width, padding)
      button_bg_color   == IF bg_color = White THEN accent ELSE White
      button_text_color == IF bg_color = White THEN White ELSE accent
  IN [at |-> <<x + padding, y + height - button_margin_bottom>>,
      button_width |-> button_width,
      button_image |-> draw_button_with_shadow(button_width, button_height,
                          button_bg_color, content.button_text,
                          fonts.body_regular, button_text_color,
                          text_width, text_height)]

\* draw_card: the operations it applies to the target canvas, in order.  The
\* button image is built (CardButton) but no operation puts it on the canvas.
draw_card(content, x, y, width, height, bg_color, border_color, text_color, body_text_color, accent, fonts, padding, button_margin_bottom, caption_margin_bottom) ==
  LET content_x == x + padding
      content_y == y + padding
  IN << [op |-> "rounded_rectangle", part |-> "card", box |-> <<x, y, x + width, y + height>>,
         radius |-> 12, fill |-> bg_color, outline |-> border_color, width |-> 2],
        Text("eyebrow", <<content_x, content_y>>, content.eyebrow,
             fonts.body_small, accent),
        Text("title", <<content_x, content_y + 30>>, content.title, fonts.h2, text_color),
        Text("subtitle", <<content_x, content_y + 85>>, content.subtitle, fonts.h5, accent) >>
     \o BodyLines("body_large", content.body_large, content_x, content_y + 130, 28,
                  fonts.body_large, body_text_color)
     \o BodyLines("body_regular", content.body_regular, content_x, content_y + 190, 24,
                  fonts.body_regular, body_text_color)
     \o << [op |-> "text", part |-> "caption",
            at |-> <<content_x, y + height - caption_margin_bottom>>,
            text |-> content.caption, suffix |-> "t.me/sergiobulaev",
            font |-> fonts.caption, fill |-> body_text_color] >>

-----------------------------------------------------------------------------
(* Header, promo block, background pattern *)

\* a text whose position is offset from `anchor` by a measured size (`how`)
RelText(part, anchor, how, text, args, font, fill) ==
  [op |-> "text", part |-> part, anchor |-> anchor, how |-> how, text |-> text,
   args |-> args, font |-> font, fill |-> fill]

\* a variant that rounds to the nearest integer instead of truncating
PatternAlpha_Rounded(opacityMilli) == ((255 * opacityMilli) + 500) \div 1000

\* int(255 * opacity), opacity given in thousandths
PatternAlpha(opacityMilli) == (255 * opacityMilli) \div 1000

DefaultOpacityMilli == 35

rhombus_size == 15

\* a variant that draws the rhombus at the cell origin in every second cell
PatternCell_EverySecond(k, cols, fill) ==
  LET row == (k \div cols) - 4
      col == (k % cols) - 4
      x == col * rhombus_size * 11
      y == row * rhombus_size * 11
      third == (rhombus_size * 10) \div 3
  IN (IF (row + col) % 2 = 0
      THEN << [tile |-> "origin", row |-> row, col |-> col, at |-> <<x, y>>,
               fill |-> fill] >>
      ELSE << >>)
     \o << [tile |-> "offset", row |-> row, col |-> col,
             at |-> <<x + third + third, y + third>>, fill |-> fill] >>

\* the tiles create_penrose_pattern draws for grid cell k (cells numbered row
\* by row): the rhombus at the cell origin when (row + col) % 3 == 0, then the
\* offset rhombus.  Coordinates are in tenths of a pixel (x = col * 15 * 1.1).
PatternCell(k, cols, fill) ==
  LET row == (k \div cols) - 4
      col == (k % cols) - 4
      x == col * rhombus_size * 11
      y == row * rhombus_size * 11
      third == (rhombus_size * 10) \div 3
  IN (IF (row + col) % 3 = 0
      THEN << [tile |-> "origin", row |-> row, col |-> col, at |-> <<x, y>>,
               fill |-> fill] >>
      ELSE << >>)
     \o << [tile |-> "offset", row |-> row, col |-> col,
             at |-> <<x + third + third, y + third>>, fill |-> fill] >>

\* the tiles of the cells k..n-1 in loop order (the range is halved to keep
\* the evaluation shallow)
RECURSIVE PatternTiles(_, _, _, _)
PatternTiles(k, n, cols, fill) ==
  IF k >= n THEN << >>
  ELSE IF n = k + 1 THEN PatternCell(k, cols, fill)
  ELSE LET mid == (k + n) \div 2
       IN PatternTiles(k, mid, cols, fill) \o PatternTiles(mid, n, cols, fill)

\* create_penrose_pattern(width, height, color, opacity): a transparent layer
\* and the tiles drawn on it, in order
create_penrose_pattern(width, height, color, opacityMilli) ==
  LET rows == (height \div rhombus_size) + 5 + 4
      cols == (width \div rhombus_size) + 5 + 4
      pattern_color == color \o << PatternAlpha(opacityMilli) >>
  IN [mode |-> "RGBA", size |-> <<width, height>>, base |-> <<0, 0, 0, 0>>,
      tiles |-> PatternTiles(0, rows * cols, cols, pattern_color)]

\* apply_background_pattern: the pattern layer composited over the image
apply_background_pattern(image, color) ==
  Drawn([image EXCEPT !.mode = "RGBA"],
        << [op |-> "alpha_composite", part |-> "pattern", size |-> image.size,
            color |-> color, alpha |-> PatternAlpha(DefaultOpacityMilli)] >>)

\* draw_header_with_logo: logo (when a logo file is present), title, subtitle
draw_header_with_logo(title, subtitle, names, fonts, margin, y_offset) ==
  << [op |-> "paste", part |-> "logo", at |-> <<margin, y_offset + 5>>,
      when |-> "logo file present"],
     RelText("header_title", <<margin, y_offset>>, "x + logo.width + 40 if logo",
             title, << >>, fonts.h1, headline_color),
     RelText("header_subtitle", <<margin, y_offset + 25>>,
             "x + logo.width + 40 if logo, y + title_height",
             subtitle, names, fonts.body_xlarge, body_color) >>

\* draw_telegram_section: the QR code and the three lines of contact text; the
\* width argument is not read
qr_size == 120

draw_telegram_section(width, y_position, fonts, text_color) ==
  LET margin == 70
      qr_x == margin
      qr_y == y_position
      text_x == qr_x + qr_size + 30
      text_bottom == qr_y + qr_size
      line_spacing == 25
  IN [ops |->
        << [op |-> "paste", part |-> "qr", at |-> <<qr_x, qr_y>>,
            size |-> <<qr_size, qr_size>>],
           Text("channel_description", <<text_x, text_bottom - line_spacing>>,
                "AI use cases for everyone", fonts.body_regular, text_color),
           Text("telegram_url", <<text_x, text_bottom - (line_spacing * 2)>>,
                "https://t.me/sergiobulaev", fonts.body_large, text_color),
           Text("channel_name", <<text_x, text_bottom - (line_spacing * 3)>>,
                "Sergey Bulaev AI", fonts.body_regular_bold, text_color) >>,
      qr_bottom |-> qr_y + qr_size]

-----------------------------------------------------------------------------
(* Page assembler: create_font_preview *)

\* a variant with the rows 360 apart, closer than a card is high
PageLayout_Rows360 ==
  [width |-> 1400, height |-> 1400, card_padding |-> 40, card_height |-> 380,
   button_margin_bottom |-> 80, caption_margin_bottom |-> 25,
   row_spacing |-> 360, columns_y |-> 240, margin |-> 70]

\* the fixed layout of create_font_preview
PageLayout ==
  [width |-> 1400, height |-> 1400, card_padding |-> 40, card_height |-> 380,
   button_margin_bottom |-> 80, caption_margin_bottom |-> 25,
   row_spacing |-> 400, columns_y |-> 240, margin |-> 70]

\* a variant that does not lower-case the names
OutputFilename_NoLower(headline_font_name, body_font_name) ==
  headline_font_name \o <<"_">> \o body_font_name \o DotPng

\* f"{headline_font_name.lower()}_{body_font_name.lower()}.png"
OutputFilename(headline_font_name, body_font_name) ==
  Lower(headline_font_name) \o <<"_">> \o Lower(body_font_name) \o DotPng

\* f"{name.lower()}.ttf"
FontPath(font_name) == Lower(font_name) \o DotTtf

\* a variant that inverts the background but not the text
CardColors_TextNotInverted(is_inverted) ==
  [card_bg         |-> IF is_inverted THEN headline_color ELSE card_color,
   text_color      |-> headline_color,
   body_text_color |-> body_color]

\* the card colours of a position: inverted (dark) or not
CardColors(is_inverted) ==
  [card_bg         |-> IF is_inverted THEN headline_color ELSE card_color,
   text_color      |-> IF is_inverted THEN White ELSE headline_color,
   body_text_color |-> IF is_inverted THEN White ELSE body_color]

\* a variant that walks the 2x2 grid column by column
RECURSIVE PageCards_ColumnMajor(_, _)
PageCards_ColumnMajor(i, fonts) ==
  IF i >= 4 THEN << >>
  ELSE LET L   == PageLayout
           row == i % 2
           col == i \div 2
           column_width == (L.width - (3 * L.margin)) \div 2
           x == L.margin + (col * (column_width + L.margin))
           y == L.columns_y + (row * L.row_spacing)
           c == CardColors(col = 1)
       IN draw_card(content_pairs[i + 1], x, y, column_width, L.card_height,
                    c.card_bg, card_border, c.text_color, c.body_text_color,
                    accent_color, fonts, L.card_padding,
                    L.button_margin_bottom, L.caption_margin_bottom)
          \o PageCards_ColumnMajor(i + 1, fonts)

\* the 2x2 loop of create_font_preview: the cards' operations in drawing order
RECURSIVE PageCards(_, _)
PageCards(i, fonts) ==
  IF i >= 4 THEN << >>
  ELSE LET L   == PageLayout
           row == i \div 2
           col == i % 2
           column_width == (L.width - (3 * L.margin)) \div 2
           x == L.margin + (col * (column_width + L.margin))
           y == L.columns_y + (row * L.row_spacing)
           c == CardColors(col = 1)
       IN (IF i >= Len(content_pairs) THEN << >>
           ELSE draw_card(content_pairs[i + 1], x, y, column_width, L.card_height,
                          c.card_bg, card_border, c.text_color, c.body_text_color,
                          accent_color, fonts, L.card_padding,
                          L.button_margin_bottom, L.caption_margin_bottom))
          \o PageCards(i + 1, fonts)

\* the file image.save writes: the canvas as it is then (n operations applied)
SavedFile(image) == [mode |-> image.mode, size |-> image.size, n |-> Len(image.ops)]

\* image.save(path): the file written, and the save recorded on the canvas
SaveOp(path) == [op |-> "save", part |-> "file", path |-> path]

\* create_font_preview: the existence check and the font loading of its try
\* block pass
PreviewFontsLoad(dir, headline_font_path, body_font_path) ==
  /\ FontFileExists(dir, headline_font_path)
  /\ FontFileExists(dir, body_font_path)
  /\ FontFileLoads(dir, headline_font_path)
  /\ FontFileLoads(dir, body_font_path)

\* a variant that writes the unfinished canvas out before it reports the failure
PreviewFailure_SavesPartial(out, headline_font_name, body_font_name, image) ==
  [out |-> [out EXCEPT !.files =
              (OutputFilename(headline_font_name, body_font_name) :> SavedFile(image)) @@ @],
   log |-> << [msg |-> "Error creating preview for",
               headline |-> headline_font_name, body |-> body_font_name] >>,
   canvas |-> Drawn(image, << SaveOp(OutputFilename(headline_font_name, body_font_name)) >>),
   raised |-> TRUE, escaped |-> FALSE]

\* a variant without the except clause: the exception leaves the function
PreviewFailure_Uncaught(out, headline_font_name, body_font_name, image) ==
  [out |-> out, log |-> << >>, canvas |-> image, raised |-> TRUE, escaped |-> TRUE]

\* create_font_preview: its except clause prints one message and the function
\* returns; nothing was saved
PreviewFailure(out, headline_font_name, body_font_name, image) ==
  [out |-> out,
   log |-> << [msg |-> "Error creating preview for",
               headline |-> headline_font_name, body |-> body_font_name] >>,
   canvas |-> image, raised |-> TRUE, escaped |-> FALSE]

\* create_font_preview(headline_font_name, body_font_name): the output
\* directory afterwards, the messages printed, the canvas built, whether the
\* try block raised and whether an exception escaped the function
create_font_preview(dir, out, headline_font_name, body_font_name) ==
  LET L == PageLayout
      image == apply_background_pattern(NewImage("RGBA", L.width, L.height),
                                        headline_color)
      headline_font_path == FontPath(headline_font_name)
      body_font_path     == FontPath(body_font_name)
      fonts == PageFonts(headline_font_path, body_font_path)
      bottom_y == L.height - 200
      tg == draw_telegram_section(L.width, bottom_y, fonts, headline_color)
      right_x == L.width - 70
      drawn ==
        Drawn(image,
          draw_header_with_logo("Typography Exploration", "A Visual Study of {} + {}",
              <<headline_font_name, body_font_name>>, fonts, 70, 60)
          \o PageCards(0, fonts)
          \o tg.ops
          \o << RelText("font_info", <<right_x, tg.qr_bottom - 45>>, "x - font_width",
                        "{} for Headlines - {} for Body Text",
                        <<headline_font_name, body_font_name>>,
                        fonts.body_regular_bold, body_color),
                RelText("timestamp", <<right_x, tg.qr_bottom - 20>>,
                        "x - timestamp_width", "Generated on {now}", << >>,
                        fonts.body_small_bold, muted_color) >>)
      output_filename == OutputFilename(headline_font_name, body_font_name)
      made == [out EXCEPT !.exists = TRUE]
  IN IF ~PreviewFontsLoad(dir, headline_font_path, body_font_path)
     THEN PreviewFailure(made, headline_font_name, body_font_name, image)
     ELSE [out |-> [made EXCEPT !.files = (output_filename :> SavedFile(drawn)) @@ @],
           log |-> << [msg |-> "Created", path |-> output_filename] >>,
           canvas |-> Drawn(drawn, << SaveOp(output_filename) >>), raised |-> FALSE,
           escaped |-> FALSE]

-----------------------------------------------------------------------------
(* Page assembler: create_font_comparison *)

font_pairs ==
  << <<SpaceGrotesk, Inter>>, <<SpaceGrotesk, Outfit>>,
     <<SpaceGrotesk, DMSans>>, <<SpaceGrotesk, PublicSans>> >>

FontComparisonPng ==
  <<"f","o","n","t","_","c","o","m","p","a","r","i","s","o","n">> \o DotPng

InterTtf == <<"i","n","t","e","r">> \o DotTtf

NoImage == [mode |-> "None", size |-> <<0, 0>>, ops |-> << >>]

\* the two cards of a comparison tile, in drawing order
RECURSIVE TileCards(_, _, _)
TileCards(i, width, fonts) ==
  IF i >= 2 THEN << >>
  ELSE LET L == PageLayout
           column_width == (width - (3 * L.margin)) \div 2
           x == L.margin + (i * (column_width + L.margin))
           y == L.columns_y
           c == CardColors(i = 1)
       IN draw_card(content_pairs[i + 1], x, y, column_width, L.card_height,
                    c.card_bg, card_border, c.text_color, c.body_text_color,
                    accent_color, fonts, L.card_padding,
                    L.button_margin_bottom, L.caption_margin_bottom)
          \o TileCards(i + 1, width, fonts)

\* create_preview_for_comparison: the tile (NoImage for None) and the messages
create_preview_for_comparison(dir, headline_font, body_font, width, height) ==
  LET preview == apply_background_pattern(NewImage("RGBA", width, height),
                                          headline_color)
      headline_font_path == FontPath(headline_font)
      body_font_path     == FontPath(body_font)
      fonts == PageFonts(headline_font_path, body_font_path)
  IN IF ~FontFileLoads(dir, headline_font_path) \/ ~FontFileLoads(dir, body_font_path)
     THEN [preview |-> NoImage,
           log |-> << [msg |-> "Error creating preview for comparison"] >>]
     ELSE [preview |->
             Drawn(preview,
               draw_header_with_logo("Typography Exploration", "{} + {}",
                   <<headline_font, body_font>>, fonts, 70, 60)
               \o TileCards(0, width, fonts)),
           log |-> << >>]

\* the fixed layout of create_font_comparison
ComparisonLayout ==
  [preview_width |-> 1400, preview_height |-> 1000, padding |-> 100,
   footer_height |-> 200]

\* a variant that leaves out a tile that could not be built and goes on
RECURSIVE comparison_loop_SkipsFailed(_, _, _, _)
comparison_loop_SkipsFailed(i, acc, dir, font) ==
  IF i >= Len(font_pairs) THEN acc
  ELSE LET C == ComparisonLayout
           t == create_preview_for_comparison(dir, font_pairs[i + 1][1],
                                              font_pairs[i + 1][2],
                                              C.preview_width, C.preview_height)
           x_pos == C.padding + i * (C.preview_width + C.padding)
       IN comparison_loop_SkipsFailed(i + 1,
            [image |-> IF t.preview = NoImage THEN acc.image
                       ELSE Drawn(acc.image,
                              << [op |-> "paste", part |-> "tile",
                                  at |-> <<x_pos, C.padding>>,
                                  size |-> t.preview.size, tile |-> t.preview.ops] >>),
             log |-> acc.log \o t.log, raised |-> FALSE],
            dir, font)

\* the tile loop of create_font_comparison from the i-th pair (0-based) on:
\* acc = [image, log, raised]; pasting a tile that is None raises
RECURSIVE comparison_loop(_, _, _, _)
comparison_loop(i, acc, dir, font) ==
  IF i >= Len(font_pairs) \/ acc.raised THEN acc
  ELSE LET C == ComparisonLayout
           headline_font == font_pairs[i + 1][1]
           body_font     == font_pairs[i + 1][2]
           t == create_preview_for_comparison(dir, headline_font, body_font,
                                              C.preview_width, C.preview_height)
           x_pos == C.padding + i * (C.preview_width + C.padding)
           y_pos == C.padding
           info_x == x_pos + (C.preview_width \div 2)
           info_y == y_pos + C.preview_height + 20
       IN IF t.preview = NoImage
          THEN [image |-> acc.image, log |-> acc.log \o t.log, raised |-> TRUE]
          ELSE comparison_loop(i + 1,
                 [image |-> Drawn(acc.image,
                    << [op |-> "paste", part |-> "tile", at |-> <<x_pos, y_pos>>,
                        size |-> t.preview.size, tile |-> t.preview.ops],
                       RelText("tile_info_headline", <<info_x, info_y>>,
                               "x - text_width // 2", "{} for Headlines",
                               <<headline_font>>, font, body_color),
                       RelText("tile_info_body", <<info_x, info_y + 25>>,
                               "x - text_width // 2", "{} for Body Text",
                               <<body_font>>, font, body_color) >>),
                  log |-> acc.log \o t.log, raised |-> FALSE],
                 dir, font)

\* create_font_comparison(): the output directory afterwards, the messages
\* printed, the canvas built
create_font_comparison(dir, out) ==
  LET C == ComparisonLayout
      total_width  == (C.preview_width + C.padding) * Len(font_pairs) + C.padding
      total_height == C.preview_height + (C.padding * 2) + C.footer_height
      comparison == NewImage("RGB", total_width, total_height)
      body_regular == FontOf(InterTtf, 16)
      body_small   == FontOf(InterTtf, 14)
      failed(image, msgs) ==
        [out |-> out,
         log |-> msgs \o << [msg |-> "Error creating font comparison"] >>,
         canvas |-> image, raised |-> TRUE, escaped |-> FALSE]
  IN IF ~FontFileExists(dir, InterTtf) \/ ~FontFileLoads(dir, InterTtf)
     THEN failed(comparison, << >>)
     ELSE LET tiles == comparison_loop(0, [image |-> comparison, log |-> << >>,
                                           raised |-> FALSE], dir, body_regular)
              footer_y == total_height - C.footer_height
              tg == draw_telegram_section(total_width \div 2, footer_y + 20,
                       [body_regular |-> body_regular, body_large |-> body_regular,
                        body_regular_bold |-> body_regular], headline_color)
              drawn == Drawn(tiles.image,
                         tg.ops
                         \o << RelText("timestamp", <<total_width, tg.qr_bottom + 20>>,
                                       "(x - text_width) // 2", "Generated on {now}",
                                       << >>, body_small, muted_color) >>)
          IN IF tiles.raised THEN failed(tiles.image, tiles.log)
             ELSE IF ~out.exists THEN failed(drawn, tiles.log)
             ELSE [out |-> [out EXCEPT !.files = (FontComparisonPng :> SavedFile(drawn)) @@ @],
                   log |-> tiles.log \o << [msg |-> "Created font comparison at",
                                            path |-> FontComparisonPng] >>,
                   canvas |-> Drawn(drawn, << SaveOp(FontComparisonPng) >>),
                   raised |-> FALSE, escaped |-> FALSE]

-----------------------------------------------------------------------------
(* The state machines.  Spec runs the batch driver generate_all_previews     *)
(* once; SpecFonts calls the font provisioner, SpecPages the page assembler, *)
(* any number of times on a file system that persists between calls.        *)

NoFiles == [n \in {} |-> NoImage]

\* a file that an earlier run or another program left behind
StaleFile == [mode |-> "RGB", size |-> <<1, 1>>, n |-> 0]

OldPng   == <<"o","l","d">> \o DotPng
UpperPng == <<"O","L","D",".","P","N","G">>
NotesTxt == <<"n","o","t","e","s",".","t","x","t">>

InitialOutDirs ==
  { [exists |-> FALSE, files |-> NoFiles],
    [exists |-> TRUE,
     files |-> [n \in {OldPng, UpperPng, NotesTxt, OutputFilename(SpaceGrotesk, Inter)}
                  |-> StaleFile]] }

NoReturn == [kind |-> "None"]

MainInit(fontStates, outDirs, start) ==
  /\ fontsDir \in [FontFiles -> fontStates]
  /\ outDir \in outDirs
  /\ pc = start
  /\ pairIdx = 0
  /\ fontIdx = 0
  /\ missing_fonts = << >>
  /\ op = [name |-> "none"]
  /\ requests = << >>
  /\ log = << >>
  /\ ret = NoReturn
  /\ preFonts = fontsDir
  /\ preOut = outDir
  /\ canvas = NoImage
  /\ failedPairs = {}

InitWith(fontStates, outDirs, start) ==
  /\ MainInit(fontStates, outDirs, start)
  /\ probe = [fn |-> "none"]

\* a top-level call starts: what it is, and the file system it starts from
Begin(name) ==
  /\ op' = name
  /\ preFonts' = fontsDir
  /\ preOut' = outDir
  /\ requests' = << >>
  /\ ret' = NoReturn

\* ensure_all_fonts is entered: missing_fonts = []
EnterEnsure ==
  /\ pc' = "ensure"
  /\ log' = << >>
  /\ fontIdx' = 1
  /\ missing_fonts' = << >>

\* a call of FontManager().ensure_all_fonts()
CallEnsureAllFonts ==
  /\ pc = "idle"
  /\ Begin([name |-> "ensure_all_fonts"])
  /\ EnterEnsure
  /\ UNCHANGED <<fontsDir, outDir, pairIdx, canvas, failedPairs, probe>>

\* generate_all_previews is entered and calls ensure_all_fonts
GenStart ==
  /\ pc = "start"
  /\ Begin([name |-> "generate_all_previews"])
  /\ EnterEnsure
  /\ UNCHANGED <<fontsDir, outDir, pairIdx, canvas, failedPairs, probe>>

\* ensure_all_fonts: one iteration of its loop over fonts_data.keys()
EnsureStep ==
  /\ pc = "ensure"
  /\ fontIdx <= Len(FontOrder)
  /\ LET font_name == FontOrder[fontIdx]
         font_path == fonts_data[font_name].filename
     IN IF FontFileExists(fontsDir, font_path)
        THEN UNCHANGED <<fontsDir, requests, log, missing_fonts, pc>>
        ELSE \E net \in NetBehaviours :
               LET d == download_font(fontsDir, font_name, net)
               IN /\ fontsDir' = d.dir
                  /\ requests' = requests \o d.requests
                  /\ log' = log \o d.log
                  /\ missing_fonts' = IF d.ret = None
                                      THEN Append(missing_fonts, font_name)
                                      ELSE missing_fonts
                  /\ pc' = IF d.escaped THEN "crashed" ELSE pc
  /\ fontIdx' = fontIdx + 1
  /\ UNCHANGED <<outDir, pairIdx, op, ret, preFonts, preOut, canvas, failedPairs, probe>>

\* a variant in which generate_all_previews prints the missing fonts and
\* goes on to the output directory all the same
EnsureReturn_NoEarlyReturn ==
  /\ pc = "ensure"
  /\ fontIdx > Len(FontOrder)
  /\ IF op.name = "ensure_all_fonts"
     THEN /\ ret' = [kind |-> "tuple", success |-> Len(missing_fonts) = 0,
                     missing_fonts |-> missing_fonts]
          /\ pc' = "idle"
          /\ log' = log
     ELSE /\ ret' = ret
          /\ pc' = "clean"
          /\ log' = IF Len(missing_fonts) = 0 THEN log
                    ELSE Append(log,
                           [msg |-> "Error: Could not download the following fonts",
                            fonts |-> missing_fonts])
  /\ fontIdx' = 0
  /\ UNCHANGED <<fontsDir, outDir, pairIdx, missing_fonts, op, requests, preFonts,
                 preOut, canvas, failedPairs, probe>>

\* ensure_all_fonts returns (len(missing_fonts) == 0, missing_fonts); in
\* generate_all_previews the caller then returns early or goes on
EnsureReturn ==
  /\ pc = "ensure"
  /\ fontIdx > Len(FontOrder)
  /\ LET success == Len(missing_fonts) = 0
     IN IF op.name = "ensure_all_fonts"
        THEN /\ ret' = [kind |-> "tuple", success |-> success,
                        missing_fonts |-> missing_fonts]
             /\ pc' = "idle"
             /\ log' = log
        ELSE /\ ret' = ret
             /\ IF ~success
                THEN /\ log' = Append(log,
                               [msg |-> "Error: Could not download the following fonts",
                                fonts |-> missing_fonts])
                     /\ pc' = "done"
                ELSE /\ log' = log
                     /\ pc' = "clean"
  /\ fontIdx' = 0
  /\ UNCHANGED <<fontsDir, outDir, pairIdx, missing_fonts, op, requests, preFonts,
                 preOut, canvas, failedPairs, probe>>

\* a call of create_font_preview(headline, body)
CallCreateFontPreview ==
  /\ pc = "idle"
  /\ \E i \in 1..Len(font_pairs) :
       /\ Begin([name |-> "create_font_preview", headline |-> font_pairs[i][1],
                 body |-> font_pairs[i][2]])
       /\ LET r == create_font_preview(fontsDir, outDir, font_pairs[i][1],
                                       font_pairs[i][2])
          IN /\ outDir' = r.out
             /\ log' = r.log
             /\ canvas' = r.canvas
             /\ failedPairs' = IF r.raised THEN failedPairs \cup {font_pairs[i]}
                                ELSE failedPairs
             /\ pc' = IF r.escaped THEN "crashed" ELSE pc
  /\ UNCHANGED <<fontsDir, pairIdx, fontIdx, missing_fonts, probe>>

\* a call of create_font_comparison()
CallCreateFontComparison ==
  /\ pc = "idle"
  /\ Begin([name |-> "create_font_comparison"])
  /\ LET r == create_font_comparison(fontsDir, outDir)
     IN /\ outDir' = r.out
        /\ log' = r.log
        /\ canvas' = r.canvas
        /\ pc' = IF r.escaped THEN "crashed" ELSE pc
  /\ UNCHANGED <<fontsDir, pairIdx, fontIdx, missing_fonts, failedPairs, probe>>

\* str.endswith('.png') on a directory entry
IsPngName(file) == EndsWith(file, DotPng)

\* a variant that removes nothing from an existing directory
clean_output_dir_KeepsAll(out) ==
  IF out.exists
  THEN [out |-> out, log |-> << [msg |-> "Cleaned existing previews"] >>]
  ELSE [out |-> [out EXCEPT !.exists = TRUE],
        log |-> << [msg |-> "Created previews directory"] >>]

\* generate_all_previews: create or clean the output directory
clean_output_dir(out) ==
  IF out.exists
  THEN [out |-> [out EXCEPT !.files =
                   [n \in {m \in DOMAIN out.files : ~IsPngName(m)} |-> out.files[n]]],
        log |-> << [msg |-> "Cleaned existing previews"] >>]
  ELSE [out |-> [out EXCEPT !.exists = TRUE],
        log |-> << [msg |-> "Created previews directory"] >>]

GenClean ==
  /\ pc = "clean"
  /\ LET r == clean_output_dir(outDir)
     IN /\ outDir' = r.out
        /\ log' = log \o r.log
  /\ pc' = "previews"
  /\ pairIdx' = 1
  /\ UNCHANGED <<fontsDir, fontIdx, missing_fonts, op, requests, ret, preFonts,
                 preOut, canvas, failedPairs, probe>>

\* generate_all_previews: one iteration of the loop over font_pairs
GenPreview ==
  /\ pc = "previews"
  /\ LET r == create_font_preview(fontsDir, outDir, font_pairs[pairIdx][1],
                                  font_pairs[pairIdx][2])
     IN /\ outDir' = r.out
        /\ log' = log \o r.log
        /\ canvas' = r.canvas
        /\ failedPairs' = IF r.raised THEN failedPairs \cup {font_pairs[pairIdx]}
                           ELSE failedPairs
        /\ IF r.escaped
           THEN pairIdx' = pairIdx /\ pc' = "crashed"
           ELSE IF pairIdx < Len(font_pairs)
           THEN pairIdx' = pairIdx + 1 /\ pc' = pc
           ELSE pairIdx' = 0 /\ pc' = "comparison"
  /\ UNCHANGED <<fontsDir, fontIdx, missing_fonts, op, requests, ret, preFonts,
                 preOut, probe>>

\* generate_all_previews: the comparison image, then return
GenComparison ==
  /\ pc = "comparison"
  /\ LET r == create_font_comparison(fontsDir, outDir)
     IN /\ outDir' = r.out
        /\ log' = log \o r.log
        /\ canvas' = r.canvas
        /\ pc' = IF r.escaped THEN "crashed" ELSE "done"
  /\ UNCHANGED <<fontsDir, pairIdx, fontIdx, missing_fonts, op, requests, ret,
                 preFonts, preOut, failedPairs, probe>>

\* one run of the script's batch driver
Init == InitWith({"absent", "valid"}, InitialOutDirs, "start")

Next ==
  \/ GenStart
  \/ EnsureStep
  \/ EnsureReturn
  \/ GenClean
  \/ GenPreview
  \/ GenComparison

Spec == Init /\ [][Next]_vars

\* calls of the font provisioner
InitFonts ==
  InitWith({"absent", "valid", "invalid"}, {[exists |-> FALSE, files |-> NoFiles]},
           "idle")

NextFonts ==
  \/ CallEnsureAllFonts
  \/ EnsureStep
  \/ EnsureReturn

SpecFonts == InitFonts /\ [][NextFonts]_vars

\* calls of the page assembler
InitPages == InitWith({"absent", "valid", "invalid"}, InitialOutDirs, "idle")

NextPages ==
  \/ CallCreateFontPreview
  \/ CallCreateFontComparison

SpecPages == InitPages /\ [][NextPages]_vars

-----------------------------------------------------------------------------
(* The card compositor and the pattern generator on their own: the inputs   *)
(* are drawn in the initial state and one step applies the function.        *)

\* Bounds of the pure-function specifications
MaxTextWidth     == 60
MaxPatternCells  == 1

mainVars == <<fontsDir, outDir, pc, pairIdx, fontIdx, missing_fonts, op, requests,
              log, ret, preFonts, preOut, canvas, failedPairs>>

PureInit ==
  MainInit({"valid"}, {[exists |-> FALSE, files |-> NoFiles]}, "pure")

CardWidths == {80, 120, 595}
CardPaddings == {0, 20, 40}

InitCard ==
  /\ PureInit
  /\ \E i \in 0..3, width \in CardWidths, padding \in CardPaddings,
        text_width \in 0..MaxTextWidth :
       probe = [fn |-> "draw_card", done |-> FALSE, i |-> i,
                x |-> PageLayout.margin + (i % 2) * (width + PageLayout.margin),
                y |-> PageLayout.columns_y + (i \div 2) * PageLayout.row_spacing,
                width |-> width, height |-> PageLayout.card_height,
                padding |-> padding, colors |-> CardColors(i % 2 = 1),
                text_width |-> text_width, text_height |-> 12]

\* draw_card applied to the drawn inputs
ApplyDrawCard ==
  /\ probe.fn = "draw_card"
  /\ ~probe.done
  /\ LET L == PageLayout
         fonts == PageFonts(FontPath(SpaceGrotesk), FontPath(Inter))
     IN probe' = [probe EXCEPT !.done = TRUE] @@
          [ops |-> draw_card(content_pairs[probe.i + 1], probe.x, probe.y,
                     probe.width, probe.height, probe.colors.card_bg, card_border,
                     probe.colors.text_color, probe.colors.body_text_color,
                     accent_color, fonts, probe.padding, L.button_margin_bottom,
                     L.caption_margin_bottom),
           button |-> CardButton(content_pairs[probe.i + 1], probe.x, probe.y,
                        probe.width, probe.height, probe.colors.card_bg,
                        accent_color, fonts, probe.padding, L.button_margin_bottom,
                        probe.text_width, probe.text_height)]
  /\ UNCHANGED mainVars

SpecCard == InitCard /\ [][ApplyDrawCard]_vars

PatternDims == {rhombus_size * k : k \in 0..MaxPatternCells}

InitPattern ==
  /\ PureInit
  /\ \E width \in PatternDims, height \in PatternDims, opacityMilli \in 0..1000 :
       probe = [fn |-> "create_penrose_pattern", done |-> FALSE, width |-> width,
                height |-> height, color |-> headline_color,
                opacityMilli |-> opacityMilli]

\* create_penrose_pattern applied to the drawn inputs
ApplyPattern ==
  /\ probe.fn = "create_penrose_pattern"
  /\ ~probe.done
  /\ probe' = [probe EXCEPT !.done = TRUE] @@
       [pattern |-> create_penrose_pattern(probe.width, probe.height, probe.color,
                                           probe.opacityMilli)]
  /\ UNCHANGED mainVars

SpecPattern == InitPattern /\ [][ApplyPattern]_vars

\* download_font on an empty cache, the service answering the stylesheet
\* request with a text put together from a few tokens
MaxCssTokens == 4

CssTokens == {UrlOpen, <<")">>, <<"'">>, <<"x">>, TtfUrl}

RECURSIVE TokenTexts(_)
TokenTexts(n) ==
  IF n = 0 THEN {<< >>}
  ELSE LET shorter == TokenTexts(n - 1)
       IN shorter \cup {t \o token : t \in shorter, token \in CssTokens}

InitCss ==
  /\ PureInit
  /\ \E text \in TokenTexts(MaxCssTokens), ttf \in {"error", "valid", "invalid"},
        font_name \in {Inter, PublicSans} :
       probe = [fn |-> "download_font", done |-> FALSE, font_name |-> font_name,
                net |-> [css |-> [ok |-> TRUE, text |-> text], ttf |-> ttf]]

\* download_font applied to the drawn inputs
ApplyDownloadFont ==
  /\ probe.fn = "download_font"
  /\ ~probe.done
  /\ probe' = [probe EXCEPT !.done = TRUE] @@
       [font_url |-> get_ttf_url(probe.net.css.text),
        result |-> download_font([n \in FontFiles |-> "absent"], probe.font_name,
                                 probe.net)]
  /\ UNCHANGED mainVars

SpecCss == InitCss /\ [][ApplyDownloadFont]_vars

-----------------------------------------------------------------------------
(* Properties *)

InSeq(x, seq) == \E i \in 1..Len(seq) : seq[i] = x

CountIn(seq, P(_)) == Cardinality({i \in 1..Len(seq) : P(seq[i])})

AllFontFilesPresent(dir) == \A n \in FontFiles : dir[n] # "absent"
AllFontFilesValid(dir)   == \A n \in FontFiles : dir[n] = "valid"

\* the names in a directory that end in ".png"
PngNames(files) == {n \in DOMAIN files : EndsWith(n, DotPng)}

PairFilenames ==
  {Lower(font_pairs[i][1]) \o <<"_">> \o Lower(font_pairs[i][2]) \o DotPng :
     i \in 1..Len(font_pairs)}

EnsureReturned == op.name = "ensure_all_fonts" /\ pc = "idle"

\* C1: ensure_all_fonts on a cache that holds all five registered font files
\* sends no network request, writes no file and returns (True, []); and a call
\* that returned success leaves all five files in the cache, so a second call
\* right after a successful one sends no request.
C1_EnsureIdempotent ==
  EnsureReturned =>
    /\ AllFontFilesPresent(preFonts) =>
         /\ requests = << >>
         /\ fontsDir = preFonts
         /\ outDir = preOut
         /\ ret = [kind |-> "tuple", success |-> TRUE, missing_fonts |-> << >>]
    /\ ret.success => AllFontFilesPresent(fontsDir)

C1_Witness ==
  /\ EnsureReturned
  /\ AllFontFilesPresent(preFonts)
  /\ \E n \in FontFiles : preFonts[n] = "invalid"
  /\ ret.success
  /\ requests = << >>

\* the message create_font_preview prints when it fails, and when it succeeds
PreviewErrorMsg(h, b) ==
  [msg |-> "Error creating preview for", headline |-> h, body |-> b]

PreviewCreatedMsg(h, b) ==
  [msg |-> "Created", path |-> Lower(h) \o <<"_">> \o Lower(b) \o DotPng]

PreviewReturned == op.name = "create_font_preview" /\ pc = "idle"

FileAbsent(dir, name) == name \notin DOMAIN dir \/ dir[name] = "absent"
FileValid(dir, name)  == name \in DOMAIN dir /\ dir[name] = "valid"

\* C2: a call of create_font_preview never raises; when a font file of its
\* pair is missing it writes no file to the output directory and prints
\* exactly one failure message, which names the pair; and a call for a pair
\* whose two font files are there and load, made on the same file system
\* before or after such failures, writes that pair's output file.
C2_MissingFontIsolated ==
  /\ pc # "crashed"
  /\ PreviewReturned =>
       LET hp == Lower(op.headline) \o DotTtf
           bp == Lower(op.body) \o DotTtf
           name == Lower(op.headline) \o <<"_">> \o Lower(op.body) \o DotPng
       IN /\ (FileAbsent(preFonts, hp) \/ FileAbsent(preFonts, bp)) =>
               /\ outDir.files = preOut.files
               /\ log = << PreviewErrorMsg(op.headline, op.body) >>
          /\ (FileValid(preFonts, hp) /\ FileValid(preFonts, bp)) =>
               /\ name \in DOMAIN outDir.files
               /\ outDir.files[name] # StaleFile
               /\ log = << PreviewCreatedMsg(op.headline, op.body) >>

\* a pair succeeded after another pair failed on a missing font file, and the
\* failed pair still has no output file
C2_Witness ==
  /\ PreviewReturned
  /\ log = << PreviewCreatedMsg(op.headline, op.body) >>
  /\ \E p \in failedPairs :
       /\ FileAbsent(fontsDir, Lower(p[2]) \o DotTtf)
       /\ (Lower(p[1]) \o <<"_">> \o Lower(p[2]) \o DotPng) \notin DOMAIN outDir.files

\* generate_all_previews reached its i-th pair: create_font_preview printed
\* its success or its failure message for that pair
PairProcessed(i) ==
  \/ InSeq(PreviewCreatedMsg(font_pairs[i][1], font_pairs[i][2]), log)
  \/ InSeq(PreviewErrorMsg(font_pairs[i][1], font_pairs[i][2]), log)

PairMessages(i) ==
  CountIn(log, LAMBDA m : \/ m = PreviewCreatedMsg(font_pairs[i][1], font_pairs[i][2])
                          \/ m = PreviewErrorMsg(font_pairs[i][1], font_pairs[i][2]))

CollageMessages ==
  CountIn(log, LAMBDA m : m.msg \in {"Created font comparison at",
                                     "Error creating font comparison"})

DownloadFailed(f) == InSeq([msg |-> "Error downloading", font |-> f], log)

DownloadTried(f) == InSeq([msg |-> "Downloading", font |-> f], log)

\* C3 as stated: whatever download or draw failed, the driver went on to
\* every font pair and to the comparison collage.
C3_Original ==
  /\ pc # "crashed"
  /\ pc = "done" =>
       /\ \A i \in 1..Len(font_pairs) : PairProcessed(i)
       /\ CollageMessages = 1

\* C3: no exception leaves generate_all_previews.  A failed download is
\* printed and ensure_all_fonts still tries every other font that is not in
\* the cache; the driver then prints the names of the fonts that could not be
\* downloaded and returns without touching the output directory and without
\* drawing any page or the collage.  When no download failed, a failed page is
\* printed and the driver still goes on to every remaining pair (one message
\* per pair) and to the collage.
C3_FailuresDoNotRaise ==
  /\ pc # "crashed"
  /\ pc = "done" =>
       IF \E f \in FontNames : DownloadFailed(f)
       THEN /\ \A f \in FontNames :
                 preFonts[fonts_data[f].filename] = "absent" => DownloadTried(f)
            /\ log[Len(log)].msg = "Error: Could not download the following fonts"
            /\ \A f \in FontNames : InSeq(f, log[Len(log)].fonts) <=> DownloadFailed(f)
            /\ \A i \in 1..Len(font_pairs) : PairMessages(i) = 0
            /\ CollageMessages = 0
            /\ outDir = preOut
       ELSE /\ \A i \in 1..Len(font_pairs) : PairMessages(i) = 1
            /\ CollageMessages = 1

\* a download failed, a later font was still downloaded, and the driver
\* returned
C3_Witness ==
  /\ pc = "done"
  /\ \E i, j \in 1..Len(log) :
       /\ i < j
       /\ log[i].msg = "Error downloading"
       /\ log[j].msg = "Successfully downloaded"
  /\ log[Len(log)].msg = "Error: Could not download the following fonts"

\* a page failed to draw, a later pair was still drawn, and the collage was
\* attempted
C3_DrawFailureReached ==
  /\ pc = "done"
  /\ \E i, j \in 1..Len(font_pairs) :
       /\ i < j
       /\ InSeq(PreviewErrorMsg(font_pairs[i][1], font_pairs[i][2]), log)
       /\ InSeq(PreviewCreatedMsg(font_pairs[j][1], font_pairs[j][2]), log)
  /\ CollageMessages = 1

SpacegroteskInterPng ==
  <<"s","p","a","c","e","g","r","o","t","e","s","k","_","i","n","t","e","r",
    ".","p","n","g">>

\* C4: with the pair's font files present and valid, create_font_preview(h, b)
\* writes exactly one file to the output directory: a 1400x1400 image named
\* lower(h) + "_" + lower(b) + ".png", every other file of the directory being
\* left as it was; for ("SpaceGrotesk", "Inter") that name is
\* spacegrotesk_inter.png; and the four pairs of the batch driver have four
\* different file names.
C4_PreviewFile ==
  /\ Cardinality(PairFilenames) = 4
  /\ PreviewReturned =>
       LET hp == Lower(op.headline) \o DotTtf
           bp == Lower(op.body) \o DotTtf
           name == Lower(op.headline) \o <<"_">> \o Lower(op.body) \o DotPng
       IN (FileValid(preFonts, hp) /\ FileValid(preFonts, bp)) =>
            /\ DOMAIN outDir.files = DOMAIN preOut.files \cup {name}
            /\ \A n \in DOMAIN preOut.files \ {name} : outDir.files[n] = preOut.files[n]
            /\ outDir.files[name].size = <<1400, 1400>>
            /\ outDir.files[name] # StaleFile
            /\ CountIn(canvas.ops, LAMBDA o : o.op = "save") = 1
            /\ canvas.ops[Len(canvas.ops)] = [op |-> "save", part |-> "file", path |-> name]
            /\ (op.headline = SpaceGrotesk /\ op.body = Inter) =>
                 name = SpacegroteskInterPng

\* create_font_preview("SpaceGrotesk", "Inter") returned with all five font
\* files valid, over a directory that held a stale file of the same name
C4_Witness ==
  /\ PreviewReturned
  /\ op.headline = SpaceGrotesk /\ op.body = Inter
  /\ AllFontFilesValid(preFonts)
  /\ SpacegroteskInterPng \in DOMAIN preOut.files
  /\ outDir.files[SpacegroteskInterPng].size = <<1400, 1400>>

CardDrawn == probe.fn = "draw_card" /\ probe.done

\* C5: the button width draw_card hands to draw_button_with_shadow is the
\* smaller of text width + 2 * 20 and card width - 2 * padding: it exceeds
\* neither and equals one of them; the button image and the button rectangle
\* drawn in it have that width.
C5_ButtonWidthClamped ==
  CardDrawn =>
    LET w == probe.button.button_width
        natural == probe.text_width + 40
        limit == probe.width - 2 * probe.padding
        image == probe.button.button_image
    IN /\ w <= natural
       /\ w <= limit
       /\ w = natural \/ w = limit
       /\ image.size = <<w + 4, 48>>
       /\ \E k \in 1..Len(image.ops) :
            /\ image.ops[k].part = "button"
            /\ image.ops[k].box = <<0, 0, w, 44>>

\* a card whose button text is wider than the card's content width
C5_Witness ==
  /\ CardDrawn
  /\ probe.text_width + 40 > probe.width - 2 * probe.padding
  /\ probe.button.button_width = probe.width - 2 * probe.padding
  /\ probe.padding > 0

\* the positions in a sequence of drawing operations where a card begins
CardsOf(ops) == {k \in 1..Len(ops) : ops[k].part = "card"}

IsDark(colour) == colour[1] + colour[2] + colour[3] < 384

\* the card beginning at ops[k]: its column, read off its left edge, decides
\* its colours; background and text are never both dark or both light
CardColoursByColumn(ops, k) ==
  LET col == (ops[k].box[1] - 70) \div 665
      bg == ops[k].fill
      title == ops[k + 2]
      bodies == {ops[j] : j \in (k + 4)..(k + 7)}
  IN /\ col \in {0, 1}
     /\ title.part = "title"
     /\ \A b \in bodies : b.part \in {"body_large", "body_regular"}
     /\ IF col = 1
        THEN /\ bg = headline_color
             /\ title.fill = White
             /\ \A b \in bodies : b.fill = White
        ELSE /\ bg = White
             /\ title.fill = headline_color
             /\ \A b \in bodies : b.fill = body_color
     /\ IsDark(bg) # IsDark(title.fill)
     /\ \A b \in bodies : IsDark(bg) # IsDark(b.fill)

\* C6: every card drawn on a page or on a tile of the comparison has the
\* colours its column decides: in column 1 a dark (headline colour) background
\* with white title and body text, in column 0 a white background with the
\* title in the dark headline colour and the body in the body colour; never a
\* background and a text that are both dark or both light.
C6_CardColoursByColumn ==
  /\ \A k \in CardsOf(canvas.ops) : CardColoursByColumn(canvas.ops, k)
  /\ \A t \in 1..Len(canvas.ops) :
       canvas.ops[t].part = "tile" =>
         \A k \in CardsOf(canvas.ops[t].tile) : CardColoursByColumn(canvas.ops[t].tile, k)

\* a page with its four cards, two of them dark
C6_Witness ==
  /\ PreviewReturned
  /\ Cardinality(CardsOf(canvas.ops)) = 4
  /\ Cardinality({k \in CardsOf(canvas.ops) : canvas.ops[k].fill = headline_color}) = 2
  /\ Cardinality({k \in CardsOf(canvas.ops) : canvas.ops[k].fill = White}) = 2

\* a comparison with its four tiles of two cards each
C6_TilesReached ==
  /\ op.name = "create_font_comparison"
  /\ Cardinality({t \in 1..Len(canvas.ops) :
                    /\ canvas.ops[t].part = "tile"
                    /\ Cardinality(CardsOf(canvas.ops[t].tile)) = 2}) = 4

PatternMade == probe.fn = "create_penrose_pattern" /\ probe.done

\* C7 as stated: the alpha of every tile is 255 * opacity rounded to the
\* nearest integer (a with |255 * opacity - a| <= 1/2), and the layer is
\* transparent elsewhere.
C7_Original ==
  PatternMade =>
    /\ probe.pattern.base[4] = 0
    /\ \A k \in 1..Len(probe.pattern.tiles) :
         LET a == probe.pattern.tiles[k].fill[4]
         IN /\ 2 * 1000 * a <= 2 * 255 * probe.opacityMilli + 1000
            /\ 2 * 255 * probe.opacityMilli - 1000 <= 2 * 1000 * a

\* C7: the alpha of every tile create_penrose_pattern draws is 255 * opacity
\* truncated to an integer (the a with a <= 255 * opacity < a + 1), the tile's
\* colour is the given colour, and the layer it draws on starts fully
\* transparent, so what no tile covers keeps alpha 0.
C7_AlphaTruncated ==
  PatternMade =>
    /\ probe.pattern.base = <<0, 0, 0, 0>>
    /\ \A k \in 1..Len(probe.pattern.tiles) :
         LET fill == probe.pattern.tiles[k].fill
         IN /\ Len(fill) = 4
            /\ <<fill[1], fill[2], fill[3]>> = probe.color
            /\ 1000 * fill[4] <= 255 * probe.opacityMilli
            /\ 255 * probe.opacityMilli < 1000 * (fill[4] + 1)
            /\ fill[4] \in 0..255

\* the default opacity 0.035: 255 * 0.035 = 8.925, and the tiles have alpha 8
C7_Witness ==
  /\ PatternMade
  /\ probe.opacityMilli = 35
  /\ Len(probe.pattern.tiles) > 0
  /\ \A k \in 1..Len(probe.pattern.tiles) : probe.pattern.tiles[k].fill[4] = 8

\* the messages by which a run reports a failure
ErrorMessages ==
  {"Error downloading", "Error: Could not download the following fonts",
   "Error creating preview for", "Error creating preview for comparison",
   "Error creating font comparison"}

\* generate_all_previews returned and reported no failure
RunSucceeded ==
  /\ pc = "done"
  /\ \A k \in 1..Len(log) : log[k].msg \notin ErrorMessages

\* C8: after a run of generate_all_previews that reported no failure, the
\* files of the output directory whose names end in ".png" are exactly the
\* four pair files and font_comparison.png, all five written by this run; a
\* file of another name ending in ".png" that was there before is gone, and
\* every file whose name does not end in ".png" is there unchanged.
C8_ExactlyFivePngs ==
  RunSucceeded =>
    /\ PngNames(outDir.files) = PairFilenames \cup {FontComparisonPng}
    /\ Cardinality(PngNames(outDir.files)) = 5
    /\ \A n \in PngNames(outDir.files) : outDir.files[n] # StaleFile
    /\ \A n \in PngNames(preOut.files) \ (PairFilenames \cup {FontComparisonPng}) :
         n \notin DOMAIN outDir.files
    /\ \A n \in DOMAIN preOut.files \ PngNames(preOut.files) :
         n \in DOMAIN outDir.files /\ outDir.files[n] = preOut.files[n]
    /\ DOMAIN outDir.files \ PngNames(outDir.files) \subseteq DOMAIN preOut.files

\* a successful run over a directory that held a stale PNG of another name, a
\* stale PNG of a pair's name and a text file, with a font downloaded on the way
C8_Witness ==
  /\ RunSucceeded
  /\ OldPng \in DOMAIN preOut.files
  /\ OldPng \notin DOMAIN outDir.files
  /\ NotesTxt \in DOMAIN outDir.files
  /\ requests # << >>

\* the requests of the current call for the stylesheet of font f
CssRequests(f) ==
  CountIn(requests, LAMBDA r : r.kind = "css" /\ r.css_url = fonts_data[f].css_url)

\* C9: no exception leaves download_font or ensure_all_fonts.  When
\* ensure_all_fonts has returned: a font whose download failed has no file in
\* the cache and is named in the returned missing list, and the list names no
\* other font; the download of a font was started once if its file was not in
\* the cache at the call and not at all otherwise; and the returned success
\* flag is True exactly when the missing list is empty.
C9_DownloadFailureReported ==
  /\ pc # "crashed"
  /\ EnsureReturned =>
       /\ \A f \in FontNames :
            /\ DownloadFailed(f) =>
                 /\ fontsDir[fonts_data[f].filename] = "absent"
                 /\ InSeq(f, ret.missing_fonts)
            /\ InSeq(f, ret.missing_fonts) => DownloadFailed(f)
            /\ CssRequests(f) =
                 IF preFonts[fonts_data[f].filename] = "absent" THEN 1 ELSE 0
            /\ CountIn(log, LAMBDA m : m = [msg |-> "Downloading", font |-> f]) =
                 CssRequests(f)
            /\ CountIn(ret.missing_fonts, LAMBDA g : g = f) <= 1
            /\ fontsDir[fonts_data[f].filename] # preFonts[fonts_data[f].filename] =>
                 InSeq([msg |-> "Successfully downloaded", font |-> f], log)
       /\ ret.success <=> (ret.missing_fonts = << >>)

\* a call in which one download failed on the stylesheet's text, another on
\* the network, and a third font was downloaded
C9_Witness ==
  /\ EnsureReturned
  /\ Len(ret.missing_fonts) = 2
  /\ ~ret.success
  /\ \E f \in FontNames :
       /\ DownloadFailed(f)
       /\ CountIn(requests, LAMBDA r : r.kind = "ttf") = 2
       /\ Len(requests) = 5
  /\ \E g \in FontNames : InSeq([msg |-> "Successfully downloaded", font |-> g], log)

\* C10 as stated: after draw_card the target canvas holds the button, put at
\* (content_x, y + height - button_margin_bottom), besides the card
\* background, eyebrow, title, subtitle, body lines and caption.
C10_ButtonOnCanvas ==
  CardDrawn =>
    /\ \A part \in {"card", "eyebrow", "title", "subtitle", "body_large",
                    "body_regular", "caption"} :
         \E k \in 1..Len(probe.ops) : probe.ops[k].part = part
    /\ \E k \in 1..Len(probe.ops) :
         /\ probe.ops[k].part = "button"
         /\ probe.ops[k].at = <<probe.x + probe.padding,
                                probe.y + probe.height - PageLayout.button_margin_bottom>>

\* create_font_comparison returned after saving the collage
ComparisonCreated ==
  /\ op.name = "create_font_comparison"
  /\ pc = "idle"
  /\ Len(log) > 0
  /\ log[Len(log)].msg = "Created font comparison at"

\* the operations of the named part on the current canvas
PartOps(part) == {k \in 1..Len(canvas.ops) : canvas.ops[k].part = part}

CollageWidth ==
  (ComparisonLayout.preview_width + ComparisonLayout.padding) * Len(font_pairs)
    + ComparisonLayout.padding

\* C11 as stated: on the collage the timestamp is centred on the total width,
\* and the place of the promo block comes from total_width // 2: its QR code
\* is not at the fixed left margin of 70, and it is not where the same
\* function puts it for a canvas of another width (the page, 1400 wide).
C11_PromoCentred ==
  ComparisonCreated =>
    /\ \A k \in PartOps("timestamp") :
         /\ canvas.ops[k].anchor[1] = CollageWidth
         /\ canvas.ops[k].how = "(x - text_width) // 2"
    /\ Cardinality(PartOps("qr")) = 1
    /\ \A k \in PartOps("qr") :
         /\ canvas.ops[k].at[1] # 70
         /\ canvas.ops[k].at[1] #
              draw_telegram_section(PageLayout.width, canvas.ops[k].at[2],
                                    PageFonts(InterTtf, InterTtf),
                                    headline_color).ops[1].at[1]

\* the positions of the save operations on the current canvas
Saves == {k \in 1..Len(canvas.ops) : canvas.ops[k].op = "save"}

\* every named part was drawn on the current canvas, as many times as given
PartsDrawn(counts) ==
  \A part \in DOMAIN counts : Cardinality(PartOps(part)) = counts[part]

LastMsg == IF Len(log) = 0 THEN "none" ELSE log[Len(log)].msg

\* C12: a canvas is saved at most once and nothing is drawn on it after the
\* save.  A call of create_font_preview that succeeds saves once, after the
\* pattern, the header, the four cards, the promo block, the font names and
\* the timestamp, and the file holds all of them; a call of
\* create_font_comparison that succeeds saves once, after its four tiles, the
\* promo block and the timestamp; a call of either that fails saves nothing
\* and leaves the files of the output directory as they were.  The tiles of
\* the comparison are never saved themselves.
C12_SavedOnceAtEnd ==
  /\ Cardinality(Saves) <= 1
  /\ \A k \in Saves : k = Len(canvas.ops)
  /\ \A t \in PartOps("tile") :
       \A j \in 1..Len(canvas.ops[t].tile) : canvas.ops[t].tile[j].op # "save"
  /\ PreviewReturned =>
       IF LastMsg = "Created"
       THEN /\ Cardinality(Saves) = 1
            /\ PartsDrawn([pattern |-> 1, header_title |-> 1, header_subtitle |-> 1,
                           card |-> 4, qr |-> 1, font_info |-> 1, timestamp |-> 1])
            /\ outDir.files[canvas.ops[Len(canvas.ops)].path].n = Len(canvas.ops) - 1
       ELSE /\ Saves = {}
            /\ outDir.files = preOut.files
  /\ (op.name = "create_font_comparison" /\ pc = "idle") =>
       IF LastMsg = "Created font comparison at"
       THEN /\ Cardinality(Saves) = 1
            /\ PartsDrawn([tile |-> 4, tile_info_headline |-> 4, tile_info_body |-> 4,
                           qr |-> 1, timestamp |-> 1])
            /\ outDir.files[FontComparisonPng].n = Len(canvas.ops) - 1
       ELSE /\ Saves = {}
            /\ outDir.files = preOut.files

\* a collage that was saved, once, as the last step on its canvas
C12_Witness ==
  /\ ComparisonCreated
  /\ Saves = {Len(canvas.ops)}
  /\ Len(canvas.ops) > 1
  /\ FontComparisonPng \in DOMAIN outDir.files

PreviewCreated == PreviewReturned /\ LastMsg = "Created"

\* what draw_card draws, in order
CardParts ==
  <<"card", "eyebrow", "title", "subtitle", "body_large", "body_large",
    "body_regular", "body_regular", "caption">>

\* the steps of a page, in order
PageParts ==
  <<"pattern", "logo", "header_title", "header_subtitle">>
  \o CardParts \o CardParts \o CardParts \o CardParts
  \o <<"qr", "channel_description", "telegram_url", "channel_name",
       "font_info", "timestamp", "file">>

\* C13: a call of create_font_preview that succeeds performs its steps in this
\* order: background pattern, header, the four content cards with their
\* contents in list order (0, 1, 2, 3), promo block, font names, timestamp,
\* save; card i is drawn with row = i // 2 and col = i % 2 at
\* x = 70 + col * (595 + 70), y = 240 + row * 400, 595 wide and 380 high.
C13_StepOrder ==
  PreviewCreated =>
    /\ [k \in 1..Len(canvas.ops) |-> canvas.ops[k].part] = PageParts
    /\ canvas.ops[1].op = "alpha_composite"
    /\ canvas.ops[Len(canvas.ops)].op = "save"
    /\ \A i \in 0..3 :
         LET k == 5 + 9 * i
             row == i \div 2
             col == i % 2
             x == 70 + col * (595 + 70)
             y == 240 + row * 400
         IN /\ canvas.ops[k].box = <<x, y, x + 595, y + 380>>
            /\ canvas.ops[k + 1].text = content_pairs[i + 1].eyebrow
            /\ canvas.ops[k + 2].text = content_pairs[i + 1].title
            /\ canvas.ops[k + 8].text = content_pairs[i + 1].caption
            /\ \A j \in (k + 1)..(k + 8) : canvas.ops[j].at[1] = x + 40

\* a page whose four cards are on the canvas, the last at (735, 640)
C13_Witness ==
  /\ PreviewCreated
  /\ Cardinality(PartOps("card")) = 4
  /\ canvas.ops[32].part = "card"
  /\ canvas.ops[32].box = <<735, 640, 1330, 1020>>

\* the tiles of the pattern made, of one kind, in one grid cell
TilesAt(kind, row, col) ==
  {k \in 1..Len(probe.pattern.tiles) :
     /\ probe.pattern.tiles[k].tile = kind
     /\ probe.pattern.tiles[k].row = row
     /\ probe.pattern.tiles[k].col = col}

\* the place of a tile in the drawing order: row, then column, then origin
\* rhombus before offset rhombus
TileBefore(s, t) ==
  \/ s.row < t.row
  \/ s.row = t.row /\ s.col < t.col
  \/ s.row = t.row /\ s.col = t.col /\ s.tile = "origin" /\ t.tile = "offset"

\* C14: create_penrose_pattern draws, for every cell (row, col) with row in
\* -4..(height // 15 + 4) and col in -4..(width // 15 + 4) and for no other
\* cell, exactly one offset rhombus, at (col * 16.5 + 10, row * 16.5 + 5), and
\* one rhombus at the cell origin (col * 16.5, row * 16.5) exactly when
\* (row + col) % 3 = 0; the cells come row by row, the origin rhombus of a cell
\* before its offset rhombus; all rhombi have the same fill; and the result is
\* a function of width, height, tint and opacity.  (Every tile is one the
\* grid allows, no tile comes twice since the order is strict, and there are
\* as many tiles as the grid allows: so every allowed tile is drawn once.)
C14_PatternGrid ==
  PatternMade =>
    LET tiles == probe.pattern.tiles
        rows == (-4)..((probe.height \div 15) + 4)
        cols == (-4)..((probe.width \div 15) + 4)
    IN /\ \A k \in 1..Len(tiles) :
            /\ tiles[k].row \in rows
            /\ tiles[k].col \in cols
            /\ tiles[k].tile \in {"origin", "offset"}
            /\ tiles[k].tile = "origin" => (tiles[k].row + tiles[k].col) % 3 = 0
            /\ tiles[k].fill = tiles[1].fill
            /\ tiles[k].at = IF tiles[k].tile = "origin"
                             THEN <<tiles[k].col * 165, tiles[k].row * 165>>
                             ELSE <<tiles[k].col * 165 + 100, tiles[k].row * 165 + 50>>
       /\ \A k \in 1..(Len(tiles) - 1) : TileBefore(tiles[k], tiles[k + 1])
       /\ Len(tiles) = Cardinality(rows \X cols)
                         + Cardinality({c \in rows \X cols : (c[1] + c[2]) % 3 = 0})
       /\ probe.pattern = create_penrose_pattern(probe.width, probe.height,
                                                 probe.color, probe.opacityMilli)

\* a 15 x 15 pattern: 10 x 10 cells; the cell (-4, -2) has a negative
\* row + col that is a multiple of 3 and holds an origin rhombus
C14_Witness ==
  /\ PatternMade
  /\ probe.width = 15 /\ probe.height = 15
  /\ Cardinality(TilesAt("origin", -4, -2)) = 1
  /\ Cardinality(TilesAt("origin", -4, -3)) = 0
  /\ Cardinality({k \in 1..Len(probe.pattern.tiles) :
                    probe.pattern.tiles[k].tile = "offset"}) = 100

FontDownloaded == probe.fn = "download_font" /\ probe.done

\* the 1-based positions where sub occurs in s
Occurrences(s, sub) ==
  {i \in 1..(Len(s) - Len(sub) + 1) : SubSeq(s, i, i + Len(sub) - 1) = sub}

Least(S) == CHOOSE i \in S : \A j \in S : i <= j

AllQuotes(s) == \A i \in 1..Len(s) : s[i] \in {"'", "\""}

\* u is s without the quote characters at its two ends
IsStripped(u, s) ==
  /\ u = << >> \/ (u[1] \notin {"'", "\""} /\ u[Len(u)] \notin {"'", "\""})
  /\ \E a \in 0..Len(s), b \in 0..Len(s) :
       /\ a <= b
       /\ AllQuotes(SubSeq(s, 1, a))
       /\ AllQuotes(SubSeq(s, b + 1, Len(s)))
       /\ u = SubSeq(s, a + 1, b)

\* C15, on a stylesheet that holds "url(" and a ")" after it: the URL
\* get_ttf_url extracts is the text between the first "url(" and the first
\* ")" after it, without the quote characters at its ends.
C15_UrlExtracted ==
  FontDownloaded =>
    LET text == probe.net.css.text
        opens == Occurrences(text, <<"u", "r", "l", "(">>)
    IN opens # {} =>
         LET from == Least(opens) + 4
             closes == {j \in Occurrences(text, <<")">>) : j >= from}
         IN closes # {} =>
              IsStripped(probe.font_url, SubSeq(text, from, Least(closes) - 1))

\* C15, on a stylesheet that holds no "url(": the download is reported as
\* failed (download_font returns None and prints the error), no resource is
\* requested and no file is written.
C15_NoUrlIsFailure ==
  FontDownloaded =>
    (Occurrences(probe.net.css.text, <<"u", "r", "l", "(">>) = {} =>
       /\ probe.result.ret = << >>
       /\ \A k \in 1..Len(probe.result.requests) : probe.result.requests[k].kind # "ttf"
       /\ \A n \in DOMAIN probe.result.dir : probe.result.dir[n] = "absent"
       /\ probe.result.log[Len(probe.result.log)].msg = "Error downloading")

\* C15 as stated: both parts
C15_SubstringSearch == C15_UrlExtracted /\ C15_NoUrlIsFailure

\* a quoted URL between "url(" and ")" was extracted and the font downloaded
C15_UrlExtractedReached ==
  /\ FontDownloaded
  /\ probe.net.css.text = <<"u", "r", "l", "(", "'", "h", ":", "f", ")">>
  /\ probe.font_url = <<"h", ":", "f">>
  /\ probe.result.ret # << >>

\* the rectangles of the cards on the current canvas, and the square of the
\* QR code, as <<x0, y0, x1, y1>>
CardRects == {canvas.ops[k].box : k \in PartOps("card")}

QrRects ==
  {<<canvas.ops[k].at[1], canvas.ops[k].at[2],
     canvas.ops[k].at[1] + canvas.ops[k].size[1],
     canvas.ops[k].at[2] + canvas.ops[k].size[2]>> : k \in PartOps("qr")}

InsideCanvas(r) ==
  /\ 0 <= r[1] /\ r[1] < r[3] /\ r[3] <= canvas.size[1]
  /\ 0 <= r[2] /\ r[2] < r[4] /\ r[4] <= canvas.size[2]

\* no pixel in common (the edges of a rectangle belong to it)
Disjoint(r, s) == r[3] < s[1] \/ s[3] < r[1] \/ r[4] < s[2] \/ s[4] < r[2]

\* C16: on a page that create_font_preview built, the four card rectangles
\* lie inside the 1400 x 1400 canvas and are pairwise disjoint, cards side by
\* side being 70 apart and cards one above the other 20 apart; the QR square
\* is at x 70..190, y 1200..1320, inside the canvas, and meets no card.
C16_LayoutDisjoint ==
  PreviewCreated =>
    /\ canvas.size = <<1400, 1400>>
    /\ Cardinality(CardRects) = 4
    /\ QrRects = {<<70, 1200, 190, 1320>>}
    /\ \A r \in CardRects \cup QrRects : InsideCanvas(r)
    /\ \A r \in CardRects :
         /\ r[3] - r[1] = (1400 - 3 * 70) \div 2
         /\ r[4] - r[2] = 380
         /\ \A q \in QrRects : Disjoint(r, q)
         /\ \A s \in CardRects \ {r} :
              /\ Disjoint(r, s)
              /\ (r[2] = s[2] /\ r[1] < s[1]) => s[1] - r[3] = 70
              /\ (r[1] = s[1] /\ r[2] < s[2]) => s[2] - r[4] = 20

\* a page with its four cards and the QR code on the canvas
C16_Witness ==
  /\ PreviewCreated
  /\ CardRects = {<<70, 240, 665, 620>>, <<735, 240, 1330, 620>>,
                  <<70, 640, 665, 1020>>, <<735, 640, 1330, 1020>>}
  /\ QrRects # {}

ComparisonReturned == op.name = "create_font_comparison" /\ pc = "idle"

\* the pairs whose tile cannot be built from the font cache the call found
BadPairs ==
  {i \in 1..Len(font_pairs) :
     \/ ~FileValid(preFonts, Lower(font_pairs[i][1]) \o DotTtf)
     \/ ~FileValid(preFonts, Lower(font_pairs[i][2]) \o DotTtf)}

TileErrors ==
  CountIn(log, LAMBDA m : m.msg = "Error creating preview for comparison")

\* C17: create_font_comparison never raises.  When the tile of a pair cannot
\* be built, the tiles before the first such pair were pasted and no tile
\* after it was built (one tile failure is printed, not more), the failure of
\* the collage is printed, and the output directory is left as it was: no
\* font_comparison.png is written.  The collage file is written only by a call
\* that built and pasted all four tiles.
C17_CollageAllOrNothing ==
  /\ pc # "crashed"
  /\ ComparisonReturned =>
       /\ (FileValid(preFonts, InterTtf) /\ BadPairs # {}) =>
            /\ Cardinality(PartOps("tile")) = Least(BadPairs) - 1
            /\ TileErrors = 1
            /\ LastMsg = "Error creating font comparison"
            /\ Saves = {}
            /\ outDir = preOut
       /\ (outDir # preOut \/ Saves # {}) =>
            /\ BadPairs = {}
            /\ Cardinality(PartOps("tile")) = 4
            /\ TileErrors = 0
            /\ LastMsg = "Created font comparison at"
            /\ DOMAIN outDir.files = DOMAIN preOut.files \cup {FontComparisonPng}
            /\ \A n \in DOMAIN preOut.files \ {FontComparisonPng} :
                 outDir.files[n] = preOut.files[n]

\* the tile of the third pair could not be built: two tiles pasted, no file
C17_Witness ==
  /\ ComparisonReturned
  /\ preOut.exists
  /\ Least(BadPairs \cup {5}) = 3
  /\ 4 \notin BadPairs
  /\ Cardinality(PartOps("tile")) = 2
  /\ FontComparisonPng \notin DOMAIN outDir.files

\* C18: once ensure_all_fonts has found a font missing, generate_all_previews
\* does nothing to the output directory: at its return the directory is as the
\* call found it (it was not created, every file that was there, PNG or not,
\* is there unchanged, no file was added), no canvas was built, and no
\* cleaning, page or collage message was printed.
C18_EarlyReturnFrame ==
  (op.name = "generate_all_previews" /\ missing_fonts # << >>) =>
    /\ pc \in {"ensure", "done"}
    /\ outDir = preOut
    /\ canvas = NoImage
    /\ failedPairs = {}
    /\ \A n \in PngNames(preOut.files) :
         n \in DOMAIN outDir.files /\ outDir.files[n] = preOut.files[n]
    /\ \A k \in 1..Len(log) :
         log[k].msg \in {"Downloading", "Error downloading", "Successfully downloaded",
                         "Error: Could not download the following fonts"}
    /\ pc = "done" =>
         /\ LastMsg = "Error: Could not download the following fonts"
         /\ log[Len(log)].fonts = missing_fonts

\* the driver returned early over a directory that held PNG files, after
\* having downloaded one font and failed on another
C18_Witness ==
  /\ op.name = "generate_all_previews"
  /\ pc = "done"
  /\ missing_fonts # << >>
  /\ fontsDir # preFonts
  /\ {OldPng, OutputFilename(SpaceGrotesk, Inter)} \subseteq DOMAIN outDir.files
  /\ outDir = preOut

====
